---- MODULE Spec2Model ----
(***************************************************************************)
(* A state-machine model of the protocol API core:                         *)
(*   api/src/opentrons/protocol_api/contexts.py                            *)
(* ProtocolContext (deck, driver, instrument loading) and                  *)
(* InstrumentContext (per-mount command surface).                          *)
(*                                                                         *)
(* The script is a single flow of control.  A call that reaches the        *)
(* driver goes through loop.run_until_complete: the handler runs up to     *)
(* the suspension point (the call's first action), the driver completes    *)
(* the operation (DriverComplete), and the handler continues after the     *)
(* suspension point (the call's *_resume action).                          *)
(*                                                                         *)
(* The specifications share Init and the actions:                          *)
(*   SpecDeck        the deck operations and the other local operations    *)
(*                   of ProtocolContext (only they write deck_layout);     *)
(*   SpecDriver      the operations of ProtocolContext that reach the      *)
(*                   driver, with pause, resume and comment;               *)
(*   SpecMotion      SpecDriver with InstrumentContext.move_to and home;   *)
(*   SpecInstrument  load_instrument and the InstrumentContext methods;    *)
(*   SpecLocal       the local operations and accessors next to the        *)
(*                   operations that reach the driver;                     *)
(*   SpecFrame       the driver-facing operations on a loaded deck.        *)
(* Spec is their union.                                                    *)
(***************************************************************************)
EXTENDS Integers, Sequences, FiniteSets, TLC

\* ---------------------------------------------------------------- bounds
MaxSlot == 2
MaxContexts == 2
MaxSims == 1
MaxVolume == 3
MaxDest == 2

\* ------------------------------------------------------------- universes
None == "None"
Mounts == {"LEFT", "RIGHT"}
Names == {"p10", "p300"}
Labwares == {"plate", "rack"}
Slots == 1 .. MaxSlot
Locations == {"A1", "B1"}
Volumes == 1 .. MaxVolume

\* Driver objects: Robot is the hardware controller a script hands to
\* connect; 1 .. MaxSims are the simulators built by the context itself.
Robot == 0
DriverIds == 0 .. MaxSims
NoDriver == 0 - 1

VARIABLES
    hardware,       \* self._hardware: the active driver object
    deck_layout,    \* self._deck_layout: slot -> labware or None
    instruments,    \* self._instruments: mount -> InstrumentContext or None
    built,          \* number of simulators built so far
    drivers,        \* state of every driver object
    heap,           \* the InstrumentContext objects constructed so far
    call,           \* the script call in progress, or the last one made
    ret,            \* its outcome
    inflight,       \* the driver operation run_until_complete waits for
    calls,          \* driver operations / primitives issued by `call`
    snapshot,       \* the dict last returned by loaded_labwares
    tip_history     \* per InstrumentContext: the last tip-lifecycle call

vars == <<hardware, deck_layout, instruments, built, drivers, heap, call,
          ret, inflight, calls, snapshot, tip_history>>

\* ------------------------------------------------- external collaborators

\* geometry.Deck: occupancy storage indexed by deck location.
EmptyDeck == [s \in Slots |-> None]

DeckSetItem(deck, location, labware_obj) ==
    [deck EXCEPT ![location] = labware_obj]

\* Iteration over the deck: the occupied (location, labware) entries in
\* location order.
RECURSIVE DeckItemsFrom(_, _)
DeckItemsFrom(deck, s) ==
    IF s > MaxSlot THEN <<>>
    ELSE IF deck[s] = None THEN DeckItemsFrom(deck, s + 1)
    ELSE <<(<<s, deck[s]>>)>> \o DeckItemsFrom(deck, s + 1)

DeckItems(deck) == DeckItemsFrom(deck, 1)

\* Lookup in a returned dict (a sequence of key/value pairs).
DictGet(d, key) ==
    IF \E i \in 1 .. Len(d) : d[i][1] = key
    THEN (CHOOSE p \in {d[i] : i \in 1 .. Len(d)} : p[1] = key)[2]
    ELSE None

\* Item assignment on a returned dict: replaces the value of a key it
\* has, appends a key it has not.
DictSetItem(d, key, value) ==
    IF \E i \in 1 .. Len(d) : d[i][1] = key
    THEN [i \in 1 .. Len(d) |-> IF d[i][1] = key THEN <<key, value>>
                                ELSE d[i]]
    ELSE Append(d, <<key, value>>)

\* geometry.point_from_location
point_from_location(location) ==
    CASE location = "A1" -> <<0, 0>>
      [] location = "B1" -> <<0, 9>>

\* labware.load: the labware made from a definition name, None when the
\* name does not resolve.
LabwareNames == {"96-flat", "tiprack-200ul", "unknown"}

load(labware_name) ==
    CASE labware_name = "96-flat" -> "plate"
      [] labware_name = "tiprack-200ul" -> "rack"
      [] OTHER -> None

\* What is physically attached to the robot.
Physical == [m \in Mounts |-> IF m = "LEFT" THEN "p300" ELSE "p10"]

Kind(d) == IF d = Robot THEN "real" ELSE "sim"

\* An attached_instruments entry: the instrument's name and its channel
\* type, as the driver reports them.
Info(name) ==
    [name |-> name,
     type |-> CASE name = "p10" -> "single"
                [] name = "p300" -> "multi"
                [] OTHER -> None]

NoInfo == Info(None)
FreshDriver == [attached |-> [m \in Mounts |-> NoInfo], refreshed |-> FALSE]

NoRequire == [m \in {} |-> None]

\* hc.API.cache_instruments(require) on driver d in state st; `fault` is the
\* driver's nondeterministic failure.  Returns <<new state, exception>>.
cache_instruments(d, st, require, fault) ==
    IF fault THEN <<st, "DriverUnavailable">>
    ELSE IF Kind(d) = "real"
    THEN IF \E m \in DOMAIN require :
                require[m] # None /\ require[m] # Physical[m]
         THEN <<st, "InstrumentMismatch">>
         ELSE <<[attached |-> [m \in Mounts |-> Info(Physical[m])],
                 refreshed |-> TRUE], "none">>
    ELSE <<[attached |-> [m \in Mounts |->
                             IF m \in DOMAIN require
                             THEN Info(require[m])
                             ELSE st.attached[m]],
            refreshed |-> TRUE], "none">>

\* hc.API.move_to / hc.API.home: no state of the driver the core reads.
driver_motion(d, st, fault) ==
    IF fault THEN <<st, "DriverUnavailable">> ELSE <<st, "none">>

\* -------------------------------------------------------- call records
NoCall == [op |-> "none", self |-> 0, labware |-> None, slot |-> 0,
           share |-> FALSE, mount |-> None, name |-> None,
           driver |-> NoDriver, location |-> None, volume |-> 0,
           ndest |-> 0, amps |-> 0]

\* A getter that returns None for a current
NoAmps == 0 - 1

Returned == [status |-> "returned", raised |-> "none", labware |-> None,
             instr |-> 0, self |-> 0, amps |-> NoAmps, text |-> None]
Suspended == [Returned EXCEPT !.status = "suspended"]
Raised(exc) == [Returned EXCEPT !.status = "raised", !.raised = exc]

Idle == [driver |-> NoDriver, op |-> "none", require |-> NoRequire,
         mount |-> None, point |-> <<0, 0>>, state |-> "none",
         exc |-> "none"]

DriverCall(d, op, require, mount, point) ==
    [driver |-> d, op |-> op, require |-> require, mount |-> mount,
     point |-> point, state |-> "pending", exc |-> "none"]

Ready == ret.status # "suspended"

\* ------------------------------------------------------ ProtocolContext

\* ProtocolContext.__init__: the hardware given, or else a simulator built
\* here.
Init ==
    /\ \E given \in BOOLEAN :
          IF given THEN hardware = Robot /\ built = 0
          ELSE hardware = 1 /\ built = 1
    /\ drivers = [d \in DriverIds |-> FreshDriver]
    /\ deck_layout = EmptyDeck
    /\ instruments = [m \in Mounts |-> 0]
    /\ heap = <<>>
    /\ call = NoCall
    /\ ret = Returned
    /\ inflight = Idle
    /\ calls = <<>>
    /\ snapshot = <<>>
    /\ tip_history = <<>>

\* A load that keeps the labware already at an occupied location.
load_labware_keep_first(labware_obj, location, share) ==
    /\ Ready
    /\ deck_layout' = IF deck_layout[location] = None
                      THEN DeckSetItem(deck_layout, location, labware_obj)
                      ELSE deck_layout
    /\ call' = [NoCall EXCEPT !.op = "load_labware", !.labware = labware_obj,
                              !.slot = location, !.share = share]
    /\ ret' = [Returned EXCEPT !.labware = labware_obj]
    /\ calls' = <<>>
    /\ UNCHANGED <<hardware, instruments, built, drivers, heap, inflight,
                   snapshot, tip_history>>

\* A load that starts from an empty deck.
load_labware_clearing(labware_obj, location, share) ==
    /\ Ready
    /\ deck_layout' = DeckSetItem(EmptyDeck, location, labware_obj)
    /\ call' = [NoCall EXCEPT !.op = "load_labware", !.labware = labware_obj,
                              !.slot = location, !.share = share]
    /\ ret' = [Returned EXCEPT !.labware = labware_obj]
    /\ calls' = <<>>
    /\ UNCHANGED <<hardware, instruments, built, drivers, heap, inflight,
                   snapshot, tip_history>>

load_labware(labware_obj, location, share) ==
    /\ Ready
    /\ deck_layout' = DeckSetItem(deck_layout, location, labware_obj)
    /\ call' = [NoCall EXCEPT !.op = "load_labware", !.labware = labware_obj,
                              !.slot = location, !.share = share]
    /\ ret' = [Returned EXCEPT !.labware = labware_obj]
    /\ calls' = <<>>
    /\ UNCHANGED <<hardware, instruments, built, drivers, heap, inflight,
                   snapshot, tip_history>>

\* A read that hands out the dict it returned before, when it has one.
loaded_labwares_cached ==
    /\ Ready
    /\ snapshot' = IF snapshot # <<>> THEN snapshot
                   ELSE DeckItems(deck_layout)
    /\ call' = [NoCall EXCEPT !.op = "loaded_labwares"]
    /\ ret' = Returned
    /\ calls' = <<>>
    /\ UNCHANGED <<hardware, deck_layout, instruments, built, drivers, heap,
                   inflight, tip_history>>

\* ProtocolContext.loaded_labwares: dict(self._deck_layout), a new dict.
loaded_labwares ==
    /\ Ready
    /\ snapshot' = DeckItems(deck_layout)
    /\ call' = [NoCall EXCEPT !.op = "loaded_labwares"]
    /\ ret' = Returned
    /\ calls' = <<>>
    /\ UNCHANGED <<hardware, deck_layout, instruments, built, drivers, heap,
                   inflight, tip_history>>

\* The script assigns into the dict a loaded_labwares call returned to it.
snapshot_setitem(location, labware_obj) ==
    /\ Ready
    /\ snapshot # <<>> \/ call.op = "loaded_labwares"
    /\ snapshot' = DictSetItem(snapshot, location, labware_obj)
    /\ call' = [NoCall EXCEPT !.op = "snapshot_setitem",
                              !.labware = labware_obj, !.slot = location]
    /\ ret' = Returned
    /\ calls' = <<>>
    /\ UNCHANGED <<hardware, deck_layout, instruments, built, drivers, heap,
                   inflight, tip_history>>

pause ==
    /\ Ready
    /\ call' = [NoCall EXCEPT !.op = "pause"]
    /\ ret' = Returned
    /\ calls' = <<>>
    /\ UNCHANGED <<hardware, deck_layout, instruments, built, drivers, heap,
                   inflight, snapshot, tip_history>>

resume ==
    /\ Ready
    /\ call' = [NoCall EXCEPT !.op = "resume"]
    /\ ret' = Returned
    /\ calls' = <<>>
    /\ UNCHANGED <<hardware, deck_layout, instruments, built, drivers, heap,
                   inflight, snapshot, tip_history>>

comment ==
    /\ Ready
    /\ call' = [NoCall EXCEPT !.op = "comment"]
    /\ ret' = Returned
    /\ calls' = <<>>
    /\ UNCHANGED <<hardware, deck_layout, instruments, built, drivers, heap,
                   inflight, snapshot, tip_history>>

\* ProtocolContext.load_labware_by_name: load() resolves the definition,
\* then load_labware registers the labware it made.
load_labware_by_name(labware_name, location) ==
    /\ Ready
    /\ call' = [NoCall EXCEPT !.op = "load_labware_by_name",
                              !.name = labware_name, !.slot = location]
    /\ calls' = <<>>
    /\ IF load(labware_name) = None
       THEN /\ ret' = Raised("UnknownLabware")
            /\ UNCHANGED deck_layout
       ELSE /\ deck_layout' = DeckSetItem(deck_layout, location,
                                          load(labware_name))
            /\ ret' = [Returned EXCEPT !.labware = load(labware_name)]
    /\ UNCHANGED <<hardware, instruments, built, drivers, heap, inflight,
                   snapshot, tip_history>>

LoadLabware == \E l \in Labwares, s \in Slots, sh \in BOOLEAN :
                   load_labware(l, s, sh)
LoadLabwareByName == \E n \in LabwareNames, s \in Slots :
                         load_labware_by_name(n, s)

SnapshotSetItem == \E s \in Slots, l \in Labwares : snapshot_setitem(s, l)

NextDeck ==
    \/ LoadLabware \/ LoadLabwareByName \/ loaded_labwares
    \/ SnapshotSetItem
    \/ pause \/ resume \/ comment

SpecDeck == Init /\ [][NextDeck]_vars

\* ------------------------------------------- driver-facing operations

\* loop.run_until_complete(coro): hand the operation to the driver and
\* suspend the calling flow.
run_until_complete(req) ==
    /\ inflight' = req
    /\ calls' = <<[driver |-> req.driver, op |-> req.op,
                   require |-> req.require, mount |-> req.mount,
                   point |-> req.point, volume |-> 0]>>
    /\ ret' = Suspended

\* A connect that submits the refresh but keeps the previous driver active.
connect_to_stale(hw, op) ==
    /\ Ready
    /\ hardware' = hardware
    /\ call' = [NoCall EXCEPT !.op = op, !.driver = hw]
    /\ run_until_complete(
           DriverCall(hw, "cache_instruments", NoRequire, None, <<0, 0>>))
    /\ UNCHANGED <<deck_layout, instruments, drivers, heap, snapshot,
                   tip_history>>

\* A connect that starts the new driver with an empty deck.
connect_to_empty_deck(hw, op) ==
    /\ Ready
    /\ hardware' = hw
    /\ deck_layout' = EmptyDeck
    /\ call' = [NoCall EXCEPT !.op = op, !.driver = hw]
    /\ run_until_complete(
           DriverCall(hw, "cache_instruments", NoRequire, None, <<0, 0>>))
    /\ UNCHANGED <<instruments, drivers, heap, snapshot, tip_history>>

\* ProtocolContext.connect; `op` is the script call it serves.
connect_to(hw, op) ==
    /\ Ready
    /\ hardware' = hw
    /\ call' = [NoCall EXCEPT !.op = op, !.driver = hw]
    /\ run_until_complete(
           DriverCall(hw, "cache_instruments", NoRequire, None, <<0, 0>>))
    /\ UNCHANGED <<deck_layout, instruments, drivers, heap, snapshot,
                   tip_history>>

connect(hw) ==
    /\ connect_to(hw, "connect")
    /\ UNCHANGED built

\* hc.API.build_hardware_simulator
build_hardware_simulator == built + 1

disconnect ==
    /\ built < MaxSims
    /\ built' = build_hardware_simulator
    /\ connect_to(build_hardware_simulator, "disconnect")

\* An overlay that forgets what the driver reported for the other mounts.
OverlayOnlyRequested(attached_instruments, mount, instrument_name) ==
    [m \in Mounts |-> IF m = mount THEN instrument_name ELSE None]

\* The attachment map sent by load_instrument.
Overlay(attached_instruments, mount, instrument_name) ==
    [m \in Mounts |-> IF m = mount THEN instrument_name
                      ELSE attached_instruments[m].name]

load_instrument(instrument_name, mount) ==
    /\ Ready
    /\ Len(heap) < MaxContexts
    /\ call' = [NoCall EXCEPT !.op = "load_instrument", !.mount = mount,
                              !.name = instrument_name, !.driver = hardware]
    /\ run_until_complete(
           DriverCall(hardware, "cache_instruments",
                      Overlay(drivers[hardware].attached, mount,
                              instrument_name),
                      None, <<0, 0>>))
    /\ UNCHANGED <<hardware, deck_layout, instruments, built, drivers, heap,
                   snapshot, tip_history>>

\* ProtocolContext.move_to, called by the script (self = 0) or by
\* InstrumentContext `self`.
ctx_move_to(self, mount, location) ==
    /\ Ready
    /\ call' = [NoCall EXCEPT !.op = "move_to", !.self = self,
                              !.mount = mount, !.location = location,
                              !.driver = hardware]
    /\ run_until_complete(
           DriverCall(hardware, "move_to", NoRequire, mount,
                      point_from_location(location)))
    /\ UNCHANGED <<hardware, deck_layout, instruments, built, drivers, heap,
                   snapshot, tip_history>>

move_to(mount, location) == ctx_move_to(0, mount, location)

\* ProtocolContext.home
ctx_home(self) ==
    /\ Ready
    /\ call' = [NoCall EXCEPT !.op = "home", !.self = self,
                              !.driver = hardware]
    /\ run_until_complete(
           DriverCall(hardware, "home", NoRequire, None, <<0, 0>>))
    /\ UNCHANGED <<hardware, deck_layout, instruments, built, drivers, heap,
                   snapshot, tip_history>>

home == ctx_home(0)

\* The driver completes the operation in flight.
DriverComplete ==
    /\ inflight.state = "pending"
    /\ \E fault \in (IF Kind(inflight.driver) = "real" THEN BOOLEAN
                     ELSE {FALSE}) :
          LET d == inflight.driver
              out == IF inflight.op = "cache_instruments"
                     THEN cache_instruments(d, drivers[d], inflight.require,
                                            fault)
                     ELSE driver_motion(d, drivers[d], fault)
          IN /\ drivers' = [drivers EXCEPT ![d] = out[1]]
             /\ inflight' = [inflight EXCEPT !.state = "done",
                                             !.exc = out[2]]
    /\ UNCHANGED <<hardware, deck_layout, instruments, built, heap, call,
                   ret, calls, snapshot, tip_history>>

\* A run_until_complete that returns without waiting for the operation.
CompletedEarly(op) ==
    /\ ret.status = "suspended"
    /\ call.op = op
    /\ inflight.state \in {"pending", "done"}

\* run_until_complete has the operation's result: it returns, or raises
\* the operation's exception into the handler, which does not catch it.
Completed(op) ==
    /\ ret.status = "suspended"
    /\ call.op = op
    /\ inflight.state = "done"

\* A handler that catches the failure and submits the operation again.
PropagateRetry ==
    /\ inflight.exc # "none"
    /\ inflight' = [inflight EXCEPT !.state = "pending", !.exc = "none"]
    /\ UNCHANGED <<hardware, deck_layout, instruments, built, drivers, heap,
                   call, ret, calls, snapshot, tip_history>>

Propagate ==
    /\ inflight.exc # "none"
    /\ ret' = Raised(inflight.exc)
    /\ inflight' = Idle
    /\ UNCHANGED <<hardware, deck_layout, instruments, built, drivers, heap,
                   call, calls, snapshot, tip_history>>

connect_resume ==
    /\ Completed("connect") \/ Completed("disconnect")
    /\ \/ Propagate
       \/ /\ inflight.exc = "none"
          /\ ret' = Returned
          /\ inflight' = Idle
          /\ UNCHANGED <<hardware, deck_layout, instruments, built, drivers,
                         heap, call, calls, snapshot, tip_history>>

\* InstrumentContext.__init__
InstrumentContext(mount, info) == [mount |-> mount, info |-> info]

load_instrument_resume ==
    /\ Completed("load_instrument")
    /\ \/ Propagate
       \/ /\ inflight.exc = "none"
          /\ heap' = Append(heap,
                 InstrumentContext(call.mount,
                                   drivers[hardware].attached[call.mount]))
          /\ tip_history' = Append(tip_history, "none")
          /\ ret' = [Returned EXCEPT !.instr = Len(heap) + 1]
          /\ inflight' = Idle
          /\ UNCHANGED <<hardware, deck_layout, instruments, built, drivers,
                         call, calls, snapshot>>

\* ProtocolContext.move_to / home return None; InstrumentContext.move_to /
\* home return self.
motion_resume ==
    /\ Completed("move_to") \/ Completed("home")
    /\ \/ Propagate
       \/ /\ inflight.exc = "none"
          /\ ret' = [Returned EXCEPT !.self = call.self]
          /\ inflight' = Idle
          /\ UNCHANGED <<hardware, deck_layout, instruments, built, drivers,
                         heap, call, calls, snapshot, tip_history>>

Connect == connect(Robot)
LoadInstrument == \E n \in Names, m \in Mounts : load_instrument(n, m)
MoveTo == \E m \in Mounts, l \in Locations : move_to(m, l)

NextDriver ==
    \/ Connect \/ disconnect \/ LoadInstrument \/ MoveTo \/ home
    \/ pause \/ resume \/ comment
    \/ DriverComplete
    \/ connect_resume \/ load_instrument_resume \/ motion_resume

SpecDriver == Init /\ [][NextDriver]_vars

\* ----------------------------------------------------- InstrumentContext
Contexts == 1 .. Len(heap)

\* Currents, in tenths of an ampere.
AmpsValues == {0, 10, 20, 25}

\* A method whose body is `pass`: it issues nothing, changes no field of
\* the object and returns None.
pass(op, self, volume, ndest, amps) ==
    /\ Ready
    /\ self \in Contexts
    /\ call' = [NoCall EXCEPT !.op = op, !.self = self, !.volume = volume,
                              !.ndest = ndest, !.amps = amps]
    /\ ret' = Returned
    /\ calls' = <<>>
    /\ UNCHANGED <<hardware, deck_layout, instruments, built, drivers, heap,
                   inflight, snapshot>>

\* tip_history records the tip-lifecycle calls the script has made; it is
\* a history of the run, not a field of the object.
Liquid(op, self, volume) ==
    /\ pass(op, self, volume, 0, 0)
    /\ UNCHANGED tip_history

TipCall(op, self) ==
    /\ pass(op, self, 0, 0, 0)
    /\ tip_history' = [tip_history EXCEPT ![self] = op]

aspirate(self, volume) == Liquid("aspirate", self, volume)
dispense(self, volume) == Liquid("dispense", self, volume)
mix(self, volume) == Liquid("mix", self, volume)
blow_out(self) == Liquid("blow_out", self, 0)
touch_tip(self) == Liquid("touch_tip", self, 0)
air_gap(self, volume) == Liquid("air_gap", self, volume)
return_tip(self) == TipCall("return_tip", self)
pick_up_tip(self) == TipCall("pick_up_tip", self)
drop_tip(self) == TipCall("drop_tip", self)

distribute(self, volume, ndest) ==
    /\ pass("distribute", self, volume, ndest, 0)
    /\ UNCHANGED tip_history

consolidate(self, volume, nsource) ==
    /\ pass("consolidate", self, volume, nsource, 0)
    /\ UNCHANGED tip_history

transfer(self, volume) ==
    /\ pass("transfer", self, volume, 1, 0)
    /\ UNCHANGED tip_history

get_pick_up_current(self) ==
    /\ pass("get_pick_up_current", self, 0, 0, 0)
    /\ UNCHANGED tip_history

set_pick_up_current(self, amps) ==
    /\ pass("set_pick_up_current", self, 0, 0, amps)
    /\ UNCHANGED tip_history

\* An accessor that homes the robot before it answers.
AccessorHoming(op, self) ==
    /\ Ready
    /\ self \in Contexts
    /\ call' = [NoCall EXCEPT !.op = op, !.self = self,
                              !.driver = hardware]
    /\ run_until_complete(
           DriverCall(hardware, "home", NoRequire, None, <<0, 0>>))
    /\ UNCHANGED <<hardware, deck_layout, instruments, built, drivers, heap,
                   snapshot, tip_history>>

\* The other configuration accessors; a setter's value is not read.
Accessor(op, self) ==
    /\ pass(op, self, 0, 0, 0)
    /\ UNCHANGED tip_history

get_speeds(self) == Accessor("get_speeds", self)
set_speeds(self) == Accessor("set_speeds", self)
get_flow_rate(self) == Accessor("get_flow_rate", self)
set_flow_rate(self) == Accessor("set_flow_rate", self)
get_type(self) == Accessor("get_type", self)
get_tip_racks(self) == Accessor("get_tip_racks", self)
set_tip_racks(self) == Accessor("set_tip_racks", self)
get_trash_container(self) == Accessor("get_trash_container", self)
set_trash_container(self) == Accessor("set_trash_container", self)

\* str.lower on a mount's name
lower(mount_name) ==
    CASE mount_name = "LEFT" -> "left"
      [] mount_name = "RIGHT" -> "right"

\* A property that reads a field of the object.
ReadField(op, self, value) ==
    /\ Ready
    /\ self \in Contexts
    /\ call' = [NoCall EXCEPT !.op = op, !.self = self]
    /\ ret' = [Returned EXCEPT !.text = value]
    /\ calls' = <<>>
    /\ UNCHANGED <<hardware, deck_layout, instruments, built, drivers, heap,
                   inflight, snapshot, tip_history>>

get_mount(self) == ReadField("get_mount", self, lower(heap[self].mount))
get_name(self) == ReadField("get_name", self, heap[self].info.name)

instrument_home(self) ==
    /\ self \in Contexts
    /\ ctx_home(self)

\* A delegation that passes the mount this instrument is not on.
instrument_move_to_other(self, location) ==
    /\ self \in Contexts
    /\ ctx_move_to(self, CHOOSE m \in Mounts : m # heap[self].mount,
                   location)

instrument_move_to(self, location) ==
    /\ self \in Contexts
    /\ ctx_move_to(self, heap[self].mount, location)

Aspirate == \E c \in Contexts, v \in Volumes : aspirate(c, v)
Dispense == \E c \in Contexts, v \in Volumes : dispense(c, v)
Mix == \E c \in Contexts, v \in Volumes : mix(c, v)
BlowOut == \E c \in Contexts : blow_out(c)
TouchTip == \E c \in Contexts : touch_tip(c)
AirGap == \E c \in Contexts, v \in Volumes : air_gap(c, v)
ReturnTip == \E c \in Contexts : return_tip(c)
PickUpTip == \E c \in Contexts : pick_up_tip(c)
DropTip == \E c \in Contexts : drop_tip(c)
Distribute == \E c \in Contexts, v \in Volumes, n \in 1 .. MaxDest :
                  distribute(c, v, n)
Consolidate == \E c \in Contexts, v \in Volumes, n \in 1 .. MaxDest :
                   consolidate(c, v, n)
Transfer == \E c \in Contexts, v \in Volumes : transfer(c, v)
GetPickUpCurrent == \E c \in Contexts : get_pick_up_current(c)
SetPickUpCurrent == \E c \in Contexts, a \in AmpsValues :
                        set_pick_up_current(c, a)
ConfigAccess == \E c \in Contexts :
    \/ get_speeds(c) \/ set_speeds(c)
    \/ get_flow_rate(c) \/ set_flow_rate(c)
    \/ get_type(c)
    \/ get_tip_racks(c) \/ set_tip_racks(c)
    \/ get_trash_container(c) \/ set_trash_container(c)
    \/ get_mount(c) \/ get_name(c)
InstrumentHome == \E c \in Contexts : instrument_home(c)
InstrumentMoveTo == \E c \in Contexts, l \in Locations :
                        instrument_move_to(c, l)

NextInstrument ==
    \/ LoadInstrument \/ DriverComplete \/ load_instrument_resume
    \/ Aspirate \/ Dispense \/ Mix \/ BlowOut \/ TouchTip \/ AirGap
    \/ ReturnTip \/ PickUpTip \/ DropTip
    \/ Distribute \/ Consolidate \/ Transfer
    \/ GetPickUpCurrent \/ SetPickUpCurrent \/ ConfigAccess
    \/ InstrumentHome \/ InstrumentMoveTo \/ motion_resume

SpecInstrument == Init /\ [][NextInstrument]_vars

\* The driver-facing operations of both classes.
NextMotion == NextDriver \/ InstrumentHome \/ InstrumentMoveTo

SpecMotion == Init /\ [][NextMotion]_vars

\* Loads at the first deck location only.
LoadLabwareFirst == \E l \in Labwares : load_labware(l, 1, FALSE)

\* The local operations next to the operations that reach the driver.
NextLocal ==
    \/ LoadLabwareFirst \/ loaded_labwares \/ comment
    \/ ConfigAccess \/ GetPickUpCurrent \/ SetPickUpCurrent
    \/ Connect \/ LoadInstrument \/ MoveTo \/ home
    \/ DriverComplete
    \/ connect_resume \/ load_instrument_resume \/ motion_resume

SpecLocal == Init /\ [][NextLocal]_vars

\* The driver-facing operations on a deck that holds labware.
NextFrame ==
    \/ LoadLabwareFirst \/ loaded_labwares
    \/ Connect \/ disconnect \/ LoadInstrument \/ MoveTo \/ home
    \/ DriverComplete
    \/ connect_resume \/ load_instrument_resume \/ motion_resume

SpecFrame == Init /\ [][NextFrame]_vars

Next == NextDeck \/ NextDriver \/ NextInstrument

Spec == Init /\ [][Next]_vars

\* ================================================================ claims

OtherMount(m) == CHOOSE o \in Mounts : o # m
LiquidOps == {"aspirate", "dispense", "mix", "blow_out", "touch_tip",
              "air_gap"}
Tipped(c) == tip_history[c] = "pick_up_tip"

\* Capacity: the maximum volume an instrument aspirates in one draw.
Capacity(info) == IF info.name = "p300" THEN 2 ELSE 1

CeilDiv(a, b) == (a + b - 1) \div b

\* The valid pick-up current is (0.0, 2.0] amperes, in tenths of an ampere.
MaxCurrent == 20
InRange(amps) == amps > 0 /\ amps <= MaxCurrent

Indexes(op) == {i \in 1 .. Len(calls) : calls[i].op = op}

SumVolumes(op) ==
    LET S[i \in 0 .. Len(calls)] ==
            IF i = 0 THEN 0
            ELSE S[i - 1] + (IF calls[i].op = op THEN calls[i].volume ELSE 0)
    IN S[Len(calls)]

\* C1: load_labware(L, loc) returns the labware L it was given, after any
\* earlier loads, and a loaded_labwares read taken right after it maps loc
\* to L.
C1_LoadLabwareRegisters ==
    /\ [](call.op = "load_labware" =>
             /\ ret.status = "returned"
             /\ ret.labware = call.labware)
    /\ [][(call.op = "load_labware" /\ call'.op = "loaded_labwares")
             => DictGet(snapshot', call.slot) = call.labware]_vars

\* C1 witness: a load has returned at a location where an earlier read saw
\* another labware, i.e. the location was occupied when it was loaded.
C1_Witness ==
    /\ call.op = "load_labware"
    /\ ret.status = "returned"
    /\ DictGet(snapshot, call.slot) \notin {None, call.labware}

\* C2: a load_labware with share false at a location that already holds a
\* labware fails with LocationOccupied and leaves the deck as it was.
C2_OccupiedLoadRejected ==
    [][(/\ call'.op = "load_labware"
        /\ call'.share = FALSE
        /\ deck_layout[call'.slot] # None)
          => /\ ret'.status = "raised"
             /\ ret'.raised = "LocationOccupied"
             /\ deck_layout' = deck_layout]_vars

\* C3: the tip state machine: a liquid-handling primitive succeeds when
\* the instrument's last tip call was pick_up_tip (Tipped) and fails with
\* NoTipAttached otherwise (a new instrument, or after drop_tip/return_tip).
C3_TipStateMachine ==
    (call.op \in LiquidOps /\ ret.status # "suspended") =>
        IF Tipped(call.self)
        THEN ret.status = "returned"
        ELSE ret.status = "raised" /\ ret.raised = "NoTipAttached"

\* C4: load_instrument(name, mount) sends the driver one cache_instruments
\* request, the driver's reported attachment map with the entry for mount
\* replaced by name; when the call does not fail it returns a new
\* InstrumentContext for mount whose info is the driver's entry for mount
\* read after the cache call completed.
C4_LoadInstrument ==
    /\ [][(call'.op = "load_instrument" /\ ret.status # "suspended"
           /\ ret'.status = "suspended")
             => calls' = <<[driver |-> hardware,
                            op |-> "cache_instruments",
                            require |->
                              [m \in Mounts |->
                                 IF m = call'.mount THEN call'.name
                                 ELSE drivers[hardware].attached[m].name],
                            mount |-> None, point |-> <<0, 0>>,
                            volume |-> 0]>>]_vars
    /\ [][(call.op = "load_instrument" /\ ret.status = "suspended"
           /\ ret'.status = "returned")
             => /\ inflight.state = "done"
                /\ calls' = calls
                /\ Len(heap') = Len(heap) + 1
                /\ ret'.instr = Len(heap')
                /\ heap'[ret'.instr].mount = call.mount
                /\ heap'[ret'.instr].info =
                       drivers[hardware].attached[call.mount]]_vars
    /\ [](call.op = "load_instrument" => Len(calls) = 1)

\* C4 witness: a load_instrument has returned a context after a request in
\* which the other mount's entry was an instrument the driver reported.
C4_Witness ==
    /\ call.op = "load_instrument"
    /\ ret.status = "returned"
    /\ ret.instr \in Contexts
    /\ calls[1].require[OtherMount(call.mount)] # None

\* C5: after a successful load_instrument(name, mount) the context it
\* returned is the one bound to mount in the Mount -> InstrumentContext
\* mapping (and no other context is bound to that mount).
C5_LoadBindsMount ==
    (call.op = "load_instrument" /\ ret.status = "returned") =>
        instruments[call.mount] = ret.instr

\* C6: a transfer of volume > capacity issues ceil(volume / capacity)
\* sub-transfers, each an aspirate followed by a dispense of the same
\* sub-volume <= capacity, the sub-volumes summing to volume.
C6_TransferSplits ==
    (/\ call.op = "transfer"
     /\ ret.status # "suspended"
     /\ call.volume > Capacity(heap[call.self].info)) =>
        LET cap == Capacity(heap[call.self].info)
            n == CeilDiv(call.volume, cap)
        IN /\ Len(calls) = 2 * n
           /\ \A k \in 1 .. n :
                 /\ calls[2 * k - 1].op = "aspirate"
                 /\ calls[2 * k].op = "dispense"
                 /\ calls[2 * k].volume = calls[2 * k - 1].volume
                 /\ calls[2 * k].volume <= cap
           /\ SumVolumes("aspirate") = call.volume

\* C7: a distribute of volume <= capacity to a sequence of wells gives
\* every destination one dispense of exactly volume, never aspirates more
\* than capacity in one draw, and uses one aspiration when the whole of
\* len(dest) * volume fits in capacity.
C7_DistributeBatches ==
    (/\ call.op = "distribute"
     /\ ret.status # "suspended"
     /\ call.volume <= Capacity(heap[call.self].info)) =>
        LET cap == Capacity(heap[call.self].info)
        IN /\ Cardinality(Indexes("dispense")) = call.ndest
           /\ \A i \in Indexes("dispense") : calls[i].volume = call.volume
           /\ \A i \in Indexes("aspirate") : calls[i].volume <= cap
           /\ SumVolumes("aspirate") = call.ndest * call.volume
           /\ (call.ndest * call.volume <= cap
                  => Cardinality(Indexes("aspirate")) = 1)

\* C8: setting pick_up_current to a value outside (0.0, 2.0] fails with
\* ConfigurationInvalid; setting a value in the range succeeds and the
\* getter called next on that instrument returns the value.
C8_PickUpCurrentValidated ==
    [][/\ (call'.op = "set_pick_up_current" /\ ~InRange(call'.amps))
             => (ret'.status = "raised"
                 /\ ret'.raised = "ConfigurationInvalid")
       /\ (/\ call.op = "set_pick_up_current"
           /\ InRange(call.amps)
           /\ call'.op = "get_pick_up_current"
           /\ call'.self = call.self)
             => (ret.status = "returned" /\ ret'.amps = call.amps)]_vars

\* C9: once pause has been called, the next script operation (and so the
\* next driver call) is a resume.
C9_PauseBlocksUntilResume ==
    [][call.op = "pause" => call'.op = "resume"]_vars

\* C10: connect(driver) makes driver the active driver and returns only
\* after that driver's cache_instruments call has completed; disconnect
\* connects to a newly built simulator and returns normally with its cache
\* refreshed; every driver operation is served by the active driver, which
\* only connect and disconnect change.
C10_ConnectDisconnect ==
    /\ [](call.op \in {"connect", "disconnect"} => hardware = call.driver)
    /\ [][(call.op \in {"connect", "disconnect"} /\ ret.status = "suspended"
           /\ ret'.status # "suspended")
             => /\ inflight.state = "done"
                /\ inflight.op = "cache_instruments"
                /\ inflight.driver = call.driver
                /\ (ret'.status = "returned"
                       => drivers'[hardware'].refreshed)]_vars
    /\ [][call'.op = "disconnect" /\ ret.status # "suspended"
           /\ ret'.status = "suspended"
             => /\ built' = built + 1
                /\ hardware' = built'
                /\ Kind(hardware') = "sim"
                /\ hardware' # hardware
                /\ drivers[hardware'] = FreshDriver]_vars
    /\ [](call.op = "disconnect" /\ ret.status # "suspended"
             => ret.status = "returned" /\ drivers[hardware].refreshed)
    /\ [][(ret.status # "suspended" /\ ret'.status = "suspended")
             => /\ inflight'.driver = hardware'
                /\ calls'[1].driver = hardware']_vars
    /\ [][hardware' # hardware
             => call'.op \in {"connect", "disconnect"}]_vars

\* C10 witness: after a connect to the robot and a disconnect, a move_to
\* has been served by the simulator disconnect built.
C10_Witness ==
    /\ call.op = "move_to"
    /\ ret.status = "returned"
    /\ drivers[Robot].refreshed
    /\ Kind(hardware) = "sim"
    /\ hardware = built
    /\ calls[1].driver = hardware

DriverOps == {"connect", "disconnect", "load_instrument", "move_to", "home"}

\* C11: a call that reaches the driver starts only when no driver
\* operation is in flight, stays suspended while its operation is pending
\* and returns or raises only once that operation is done; the operation
\* the driver completes is the one the suspended call issued, on the driver
\* it was issued to, so the driver serves the calls one at a time in the
\* order the script made them, whichever InstrumentContext made them.
C11_DriverCallsSerialized ==
    /\ [](inflight.state = "pending" => ret.status = "suspended")
    /\ [](ret.status = "suspended" =>
             /\ call.op \in DriverOps
             /\ inflight.state \in {"pending", "done"}
             /\ Len(calls) = 1
             /\ calls[1].op = inflight.op
             /\ calls[1].driver = inflight.driver
             /\ calls[1].mount = inflight.mount
             /\ calls[1].point = inflight.point)
    /\ [][(ret.status # "suspended" /\ ret'.status = "suspended")
             => inflight.state = "none" /\ inflight'.state = "pending"]_vars
    /\ [][(ret.status = "suspended" /\ ret'.status # "suspended")
             => /\ inflight.state = "done"
                /\ inflight'.state = "none"
                /\ call' = call]_vars
    /\ [][drivers' # drivers
             => /\ inflight.state = "pending"
                /\ inflight'.state = "done"
                /\ \A d \in DriverIds \ {inflight.driver} :
                       drivers'[d] = drivers[d]]_vars

\* C11 witness: with two InstrumentContexts on different mounts, a move_to
\* made through the first one, after the second was created, has returned.
C11_Witness ==
    /\ Len(heap) = 2
    /\ heap[1].mount # heap[2].mount
    /\ call.op = "move_to"
    /\ call.self = 1
    /\ ret.status = "returned"
    /\ ret.self = 1

DriverFailures == {"DriverUnavailable", "InstrumentMismatch"}

\* C12: when the driver operation of a connect, load_instrument, move_to
\* or home ends with a failure, the call raises that same failure, its
\* driver operation was issued once and is not submitted again, and no
\* InstrumentContext is created or returned.
C12_DriverFailurePropagates ==
    /\ [][(inflight.state = "done" /\ inflight.exc # "none"
           /\ inflight' # inflight)
             => /\ call.op \in DriverOps
                /\ ret.status = "suspended"
                /\ ret'.status = "raised"
                /\ ret'.raised = inflight.exc
                /\ ret'.instr = 0
                /\ inflight'.state = "none"
                /\ call' = call
                /\ calls' = calls
                /\ Len(calls) = 1
                /\ heap' = heap
                /\ instruments' = instruments]_vars
    /\ [](ret.status = "raised" =>
             /\ ret.raised \in DriverFailures
             /\ ret.instr = 0
             /\ Len(calls) = 1
             /\ inflight.state = "none")
    /\ [](inflight.exc = "InstrumentMismatch" =>
             inflight.op = "cache_instruments")

\* C12 witness: a load_instrument made when one InstrumentContext already
\* existed has raised the driver's InstrumentMismatch.
C12_Witness ==
    /\ call.op = "load_instrument"
    /\ ret.status = "raised"
    /\ ret.raised = "InstrumentMismatch"
    /\ Len(heap) = 1

\* C13: aspirate or dispense on a Tipped instrument with a volume that is
\* not > 0 or is above the instrument's maximum fails with
\* VolumeOutOfRange, issues nothing and leaves the instrument as it was.
C13_VolumeValidated ==
    [][(/\ call'.op \in {"aspirate", "dispense"}
        /\ Tipped(call'.self)
        /\ ~(call'.volume > 0
             /\ call'.volume <= Capacity(heap[call'.self].info)))
          => /\ ret'.status = "raised"
             /\ ret'.raised = "VolumeOutOfRange"
             /\ calls' = <<>>
             /\ heap' = heap
             /\ tip_history' = tip_history]_vars

LoadOps == {"load_labware", "load_labware_by_name"}

\* C14: a loaded_labwares read returns exactly the deck's occupied
\* location -> labware entries, in ascending location order, and leaves
\* the deck alone; a later load_labware leaves the returned dict as it
\* was; an assignment into the returned dict leaves the deck as it was.
C14_LoadedLabwaresSnapshot ==
    /\ [][call'.op = "loaded_labwares"
             => /\ \A s \in Slots : DictGet(snapshot', s) = deck_layout[s]
                /\ Len(snapshot') =
                       Cardinality({s \in Slots : deck_layout[s] # None})
                /\ \A i, j \in 1 .. Len(snapshot') :
                       i < j => snapshot'[i][1] < snapshot'[j][1]
                /\ deck_layout' = deck_layout]_vars
    /\ [][call'.op \in LoadOps => snapshot' = snapshot]_vars
    /\ [][call'.op = "snapshot_setitem"
             => deck_layout' = deck_layout]_vars

\* C14 witness: after a read that returned two entries, a load_labware
\* put another labware at one of the two locations, and the returned dict
\* still shows the labware that was there at the time of the read.
C14_Witness ==
    /\ call.op = "load_labware"
    /\ Len(snapshot) = 2
    /\ snapshot[1][1] < snapshot[2][1]
    /\ DictGet(snapshot, call.slot) \notin {None, call.labware}
    /\ deck_layout[call.slot] = call.labware

\* C15: InstrumentContext.move_to(location) issues exactly one driver
\* move_to, for the mount the InstrumentContext was created with and the
\* point resolved from location; InstrumentContext.home() issues exactly
\* one driver home; each, when it returns, returns the InstrumentContext
\* it was called on.
C15_InstrumentMotion ==
    /\ [][(/\ call'.op \in {"move_to", "home"}
           /\ call'.self \in Contexts
           /\ ret.status # "suspended"
           /\ ret'.status = "suspended")
             => calls' =
                  <<[driver |-> hardware,
                     op |-> call'.op,
                     require |-> NoRequire,
                     mount |-> IF call'.op = "move_to"
                               THEN heap[call'.self].mount ELSE None,
                     point |-> IF call'.op = "move_to"
                               THEN point_from_location(call'.location)
                               ELSE <<0, 0>>,
                     volume |-> 0]>>]_vars
    /\ [][(/\ call.op \in {"move_to", "home"}
           /\ call.self \in Contexts
           /\ ret.status = "suspended"
           /\ ret'.status = "returned")
             => /\ ret'.self = call.self
                /\ calls' = calls
                /\ heap' = heap]_vars
    /\ [](call.op \in {"move_to", "home"} => Len(calls) = 1)

\* C15 witness: the second of two InstrumentContexts on different mounts
\* has moved to B1 and the call has returned that InstrumentContext.
C15_Witness ==
    /\ Len(heap) = 2
    /\ heap[1].mount # heap[2].mount
    /\ call.op = "move_to"
    /\ call.self = 2
    /\ call.location = "B1"
    /\ calls[1].mount = heap[2].mount
    /\ ret.status = "returned"
    /\ ret.self = 2

ConfigOps == {"get_speeds", "set_speeds", "get_flow_rate", "set_flow_rate",
              "get_type", "get_tip_racks", "set_tip_racks",
              "get_trash_container", "set_trash_container", "get_mount",
              "get_name", "get_pick_up_current", "set_pick_up_current"}
LocalOps == {"load_labware", "loaded_labwares", "comment"} \cup ConfigOps

C17_LoadLabwareFrame ==
    [][call'.op = "load_labware"
         => /\ \A s \in Slots \ {call'.slot} :
                   deck_layout'[s] = deck_layout[s]
            /\ hardware' = hardware
            /\ instruments' = instruments
            /\ drivers' = drivers
            /\ heap' = heap]_vars

\* C17 witness: a load_labware has returned while another location holds
\* a labware loaded earlier.
C17_Witness ==
    /\ call.op = "load_labware"
    /\ ret.status = "returned"
    /\ deck_layout[call.slot] = call.labware
    /\ \E s \in Slots \ {call.slot} : deck_layout[s] # None

\* C18: no step of a connect, disconnect, load_instrument, move_to or
\* home (its submission, the driver's completion, its return or its
\* failure) changes the deck, so a loaded_labwares read made after any
\* sequence of them returns the entries the deck held before it.
C18_DriverOpsKeepDeck ==
    /\ [][call'.op \in DriverOps => deck_layout' = deck_layout]_vars
    /\ [][deck_layout' # deck_layout => call'.op \in LoadOps]_vars
    /\ [][(call.op \in DriverOps /\ call'.op = "loaded_labwares")
             => \A s \in Slots : DictGet(snapshot', s) = deck_layout[s]]_vars

\* C18 witness: a disconnect has returned on a simulator while the deck
\* still holds the labware loaded before it.
C18_Witness ==
    /\ call.op = "disconnect"
    /\ ret.status = "returned"
    /\ Kind(hardware) = "sim"
    /\ deck_layout[1] # None
====
